---- MODULE Spec2Model ----
(***************************************************************************)
(* Model of the procedure/chart pipeline and weather loader of src/data:    *)
(*   charts.py      get_charts, approach_id_to_names, merge_charts         *)
(*   load_cifp.py   dms_to_dd, parse_cifp, __main__                        *)
(*   load_weather.py  get_metar_data, __main__                             *)
(* Python strings are TLA+ strings; a call that raises is modelled by a    *)
(* result record whose field `raised` is TRUE.                             *)
(***************************************************************************)
EXTENDS Integers, Sequences, FiniteSets, TLC

VARIABLES
  approach_id,     \* decoder run: the argument of approach_id_to_names
  possible_names,  \* decoder run: the call's outcome
  pcDecode,        \* decoder run: "idle" | "call" | "done"
  dms,             \* coordinate run: the argument of dms_to_dd
  dd,              \* coordinate run: the call's outcome
  pcDms,           \* coordinate run: "idle" | "call" | "done"
  metafile,        \* get_charts: the parsed metafile, a sequence of airport_name elements
  cycle,           \* get_charts: the cycle argument
  airport_idx,     \* get_charts: number of airport_name elements entered so far
  record_idx,      \* get_charts: number of records of the current airport handled
  location,        \* get_charts: the current airport's identifier
  df_charts,       \* get_charts: the table built so far
  pcCharts,        \* get_charts: "idle" | "airports" | "records" | "done"
  records,         \* parse_cifp: the decoded records, one per input line
  rec_idx,         \* parse_cifp: number of records classified so far
  apts,            \* parse_cifp: the airport list
  fafs,            \* parse_cifp: the final-approach-fix list
  df_apt,          \* parse_cifp: the returned airport table
  df_faf,          \* parse_cifp: the returned final-approach-fix table
  pcCifp,          \* parse_cifp: "idle" | "extract" | "done" | "raised"
  in_faf,          \* merge_charts: the df_faf argument
  in_charts,       \* merge_charts: the df_charts argument
  out_faf,         \* merge_charts: the rows of the copy that have their chart columns set
  pcMerge,         \* merge_charts: "idle" | "wait" | "rows" | "done" | "raised"
  responses,       \* get_metar_data: the responses received so far, one per region requested
  metar_data,      \* get_metar_data: the rows of the table built so far
  pcMetar,         \* get_metar_data: "idle" | "regions" | "done" | "raised"
  metar,           \* weather main: "None" | "table"
  taf,             \* weather main: "None" | "table"
  nbh,             \* weather main: "None" | "text" | "forecasts"
  nbs,             \* weather main: "None" | "text" | "forecasts"
  df_nbh,          \* weather main: "None" | "table"
  df_nbs,          \* weather main: "None" | "table"
  attempts,        \* weather main: the outcome of every get_noaa_data call so far
  slept,           \* weather main: seconds spent in time.sleep so far
  written,         \* weather main: the csv files written
  uploaded,        \* weather main: the tables to_gbq was called with, in call order
  upload_idx,      \* weather main: number of upload statements passed
  pcMain           \* weather main: "idle" | "metar" | "noaa" | "nbh" | "nbs" | "upload" | "done" | "aborted"

(***************************************************************************)
(* Python string primitives                                                *)
(***************************************************************************)
Min(a, b) == IF a < b THEN a ELSE b
Max(a, b) == IF a > b THEN a ELSE b

\* s[a:b] for 0 <= a <= b
Slice(s, a, b) == IF a >= Min(b, Len(s)) THEN "" ELSE SubSeq(s, a + 1, Min(b, Len(s)))

\* s[a:]
SliceFrom(s, a) == Slice(s, a, Len(s))

\* s[-n:]
SliceLast(s, n) == Slice(s, Max(Len(s) - n, 0), Len(s))

\* s[:-1]
DropLast(s) == Slice(s, 0, Max(Len(s) - 1, 0))

\* s[i] for an index that exists (0 <= i < len(s))
CharAt(s, i) == SubSeq(s, i + 1, i + 1)

\* s[i] raises IndexError
IndexError(s, i) == i >= Len(s)

Digits == {"0", "1", "2", "3", "4", "5", "6", "7", "8", "9"}

\* s.startswith(sub, i)
MatchesAt(s, sub, i) == i + Len(sub) <= Len(s) /\ Slice(s, i, i + Len(sub)) = sub

\* s.find(sub): first index of sub in s, -1 when absent
Find(s, sub) ==
  LET hits == {i \in 0..Len(s) : MatchesAt(s, sub, i)}
  IN  IF hits = {} THEN -1 ELSE CHOOSE i \in hits : \A j \in hits : i <= j

\* s.replace(c, '') for a one-character c
RECURSIVE Remove(_, _)
Remove(s, c) ==
  IF s = "" THEN ""
  ELSE (IF CharAt(s, 0) = c THEN "" ELSE CharAt(s, 0)) \o Remove(SliceFrom(s, 1), c)

(***************************************************************************)
(* charts.py: approach_id_to_names                                         *)
(***************************************************************************)
\* the suffix fragment written without its leading space
SuffixTokenNoSpace(approach_suffix) == approach_suffix

\* the f-string fragment {f" {approach_suffix}" if approach_suffix else ""};
\* the absent suffix (None) is the empty string, which Python also treats as false
SuffixToken(approach_suffix) == IF approach_suffix # "" THEN " " \o approach_suffix ELSE ""

RunwayTypeLetters == {"I", "L", "B", "R", "H", "P", "S", "D", "V", "X", "Q", "N"}

TypeCodes == {"RNV", "GPS", "VDM", "VOR", "LBC", "LDA", "NDB", "LOC"}

\* the test on the last character of rwy_name (line 99)
EndsInLRWrongLetter(rwy_name) == SliceLast(rwy_name, 1) = "L"

EndsInLR(rwy_name) == SliceLast(rwy_name, 1) = "L" \/ SliceLast(rwy_name, 1) = "R"

\* the branch taken when the second character is a digit
RunwayNames(id) ==
  LET approach_type == CharAt(id, 0)
      approach_runway == Remove(Slice(id, 1, 4), "-")
      approach_suffix == IF Len(id) > 4 THEN CharAt(id, 4) ELSE ""
      sfx == SuffixToken(approach_suffix)
      rwy_name == "RWY " \o approach_runway
      rwy_name_lr == DropLast(rwy_name) \o "L/R"
  IN  IF approach_type = "I" \/ approach_type = "L" THEN
        << "ILS" \o sfx \o " " \o rwy_name,
           "ILS OR LOC" \o sfx \o " " \o rwy_name,
           "ILS" \o sfx \o " OR LOC " \o rwy_name,
           "ILS OR LOC/DME" \o sfx \o " " \o rwy_name,
           "ILS OR LOC/NDB" \o sfx \o " " \o rwy_name,
           "ILS" \o sfx \o " OR LOC" \o sfx \o " " \o rwy_name,
           "ILS" \o sfx \o " OR LOC/DME" \o sfx \o " " \o rwy_name,
           "LOC" \o sfx \o " " \o rwy_name,
           "LOC/DME" \o sfx \o " " \o rwy_name >>
      ELSE IF approach_type = "B" THEN
        << "LOC BC" \o sfx \o " " \o rwy_name,
           "LOC/DME BC" \o sfx \o " " \o rwy_name >>
      ELSE IF approach_type = "R" THEN
        << "RNAV (GPS)" \o sfx \o " " \o rwy_name >>
      ELSE IF approach_type = "H" THEN
        << "RNAV (RNP)" \o sfx \o " " \o rwy_name >>
      ELSE IF approach_type = "P" THEN
        << "GPS" \o sfx \o " " \o rwy_name >>
      ELSE IF approach_type = "S" \/ approach_type = "D" \/ approach_type = "V" THEN
        << "VOR" \o sfx \o " " \o rwy_name,
           "VOR/DME" \o sfx \o " " \o rwy_name,
           "VOR" \o sfx \o " OR TACAN" \o sfx \o " " \o rwy_name,
           "VOR/DME" \o sfx \o " OR TACAN" \o sfx \o " " \o rwy_name,
           "VOR/DME OR TACAN" \o sfx \o " " \o rwy_name,
           "VOR/DME" \o sfx \o " OR TACAN " \o rwy_name,
           "VOR OR GPS" \o sfx \o " " \o rwy_name,
           "VOR/DME OR GPS" \o sfx \o " " \o rwy_name >>
        \o (IF EndsInLR(rwy_name)
            THEN << "VOR" \o sfx \o " " \o rwy_name_lr,
                    "VOR/DME" \o sfx \o " " \o rwy_name_lr >>
            ELSE << >>)
      ELSE IF approach_type = "X" THEN
        << "LDA" \o sfx \o " " \o rwy_name >>
      ELSE IF approach_type = "Q" \/ approach_type = "N" THEN
        << "NDB" \o sfx \o " " \o rwy_name,
           "NDB/DME" \o sfx \o " " \o rwy_name >>
      ELSE << >>

\* the branch taken when the second character is not a digit
NonRunwayNames(id) ==
  LET approach_type == Slice(id, 0, 3)
      approach_suffix == SliceLast(id, 2)
  IN  IF approach_type = "RNV" THEN
        << "RNAV (GPS)" \o approach_suffix >>
      ELSE IF approach_type = "GPS" THEN
        << "GPS" \o approach_suffix >>
      ELSE IF approach_type = "VDM" THEN
        << "VOR/DME" \o approach_suffix,
           "VOR/DME OR GPS" \o approach_suffix >>
      ELSE IF approach_type = "VOR" THEN
        << "VOR" \o approach_suffix,
           "VOR OR TACAN" \o approach_suffix,
           "VOR OR TACAN OR GPS" \o approach_suffix >>
      ELSE IF approach_type = "LBC" THEN
        << "LOC BC" \o approach_suffix,
           "LOC/DME BC" \o approach_suffix >>
      ELSE IF approach_type = "LDA" THEN
        << "LDA" \o approach_suffix,
           "LDA/DME" \o approach_suffix >>
      ELSE IF approach_type = "NDB" THEN
        << "NDB" \o approach_suffix >>
      ELSE IF approach_type = "LOC" THEN
        << "LOC" \o approach_suffix,
           "LOC/DME" \o approach_suffix >>
      ELSE << >>

\* approach_id_to_names(approach_id): approach_id[1] raises IndexError on a
\* string shorter than two characters, before any candidate is built
approach_id_to_names(id) ==
  IF IndexError(id, 1) THEN [raised |-> TRUE, names |-> << >>]
  ELSE IF CharAt(id, 1) \in Digits
       THEN [raised |-> FALSE, names |-> RunwayNames(id)]
       ELSE [raised |-> FALSE, names |-> NonRunwayNames(id)]

(***************************************************************************)
(* charts.py: get_charts                                                   *)
(***************************************************************************)
\* lines 36-42 with the second truncation skipped once the first one applied
NormalizeTitleElif(chart_name) ==
  LET cat_index == Find(chart_name, " (CAT")
      sa_index == Find(chart_name, " (SA")
  IN  IF cat_index # -1 THEN Slice(chart_name, 0, cat_index)
      ELSE IF sa_index # -1 THEN Slice(chart_name, 0, sa_index)
      ELSE chart_name

\* lines 36-42 with the markers searched without their leading space
NormalizeTitleNoSpace(chart_name) ==
  LET cat_index == Find(chart_name, "(CAT")
      cut == IF cat_index # -1 THEN Slice(chart_name, 0, cat_index) ELSE chart_name
      sa_index == Find(cut, "(SA")
  IN  IF sa_index # -1 THEN Slice(cut, 0, sa_index) ELSE cut

\* lines 36-42: cut at ' (CAT', then search ' (SA' in what is left and cut again
NormalizeTitle(chart_name) ==
  LET cat_index == Find(chart_name, " (CAT")
      cut == IF cat_index # -1 THEN Slice(chart_name, 0, cat_index) ELSE chart_name
      sa_index == Find(cut, " (SA")
  IN  IF sa_index # -1 THEN Slice(cut, 0, sa_index) ELSE cut

\* lines 27-30 without the fallback to apt_ident
AirportLocationNoFallback(airport_element) == airport_element.icao_ident

\* lines 27-30: icao_ident, or apt_ident when icao_ident is empty
AirportLocation(airport_element) ==
  IF airport_element.icao_ident = "" THEN airport_element.apt_ident
  ELSE airport_element.icao_ident

\* lines 33-50: the row built from one record element
ChartRow(loc, cyc, record_element) ==
  [location |-> loc,
   chart_name |-> NormalizeTitle(record_element.chart_name),
   pdf_name |-> cyc \o "/" \o record_element.pdf_name]

\* line 26: the outer loop enters the next airport_name element
EnterAirport ==
  /\ pcCharts = "airports"
  /\ airport_idx < Len(metafile)
  /\ airport_idx' = airport_idx + 1
  /\ location' = AirportLocation(metafile[airport_idx + 1])
  /\ record_idx' = 0
  /\ pcCharts' = "records"
  /\ UNCHANGED <<metafile, cycle, df_charts>>

\* lines 32-52: one iteration of the inner loop
AddRecord ==
  /\ pcCharts = "records"
  /\ record_idx < Len(metafile[airport_idx].records)
  /\ df_charts' = Append(df_charts,
                         ChartRow(location, cycle, metafile[airport_idx].records[record_idx + 1]))
  /\ record_idx' = record_idx + 1
  /\ UNCHANGED <<metafile, cycle, airport_idx, location, pcCharts>>

\* line 32: the inner loop is exhausted
LeaveAirport ==
  /\ pcCharts = "records"
  /\ record_idx = Len(metafile[airport_idx].records)
  /\ pcCharts' = "airports"
  /\ UNCHANGED <<metafile, cycle, airport_idx, record_idx, location, df_charts>>

\* line 54: the outer loop is exhausted
ReturnCharts ==
  /\ pcCharts = "airports"
  /\ airport_idx = Len(metafile)
  /\ pcCharts' = "done"
  /\ UNCHANGED <<metafile, cycle, airport_idx, record_idx, location, df_charts>>

(***************************************************************************)
(* load_cifp.py: dms_to_dd                                                 *)
(***************************************************************************)
DigitValue(c) ==
  CASE c = "0" -> 0 [] c = "1" -> 1 [] c = "2" -> 2 [] c = "3" -> 3 [] c = "4" -> 4
    [] c = "5" -> 5 [] c = "6" -> 6 [] c = "7" -> 7 [] c = "8" -> 8 [] c = "9" -> 9

AllDigits(s) == \A i \in 0..(Len(s) - 1) : CharAt(s, i) \in Digits

RECURSIVE DecimalValue(_)
DecimalValue(s) ==
  IF s = "" THEN 0
  ELSE 10 * DecimalValue(DropLast(s)) + DigitValue(SliceLast(s, 1))

\* int(s) for strings of digits and other printable characters: a string that
\* is empty or holds a character that is not a digit raises ValueError
PyInt(s) ==
  IF s # "" /\ AllDigits(s)
  THEN [raised |-> FALSE, value |-> DecimalValue(s)]
  ELSE [raised |-> TRUE, value |-> 0]

\* s.rjust(width, fill)
RECURSIVE RJust(_, _, _)
RJust(s, width, fill) == IF Len(s) >= width THEN s ELSE RJust(fill \o s, width, fill)

\* the sign chosen from the hemisphere letter (lines 23-26)
HemisphereSignNorthOnly(coord) == IF CharAt(coord, 0) = "N" THEN 1 ELSE -1

HemisphereSign(coord) == IF CharAt(coord, 0) = "N" \/ CharAt(coord, 0) = "E" THEN 1 ELSE -1

\* one degree in the unit of the modelled result: hundredths of arc-seconds
HundredthsPerDegree == 360000
HundredthsPerMinute == 6000

\* dms_to_dd(dms); the float sign * (d + m / 60 + s / 3600) is held exactly as
\* the integer sign * (360000 d + 6000 m + 100 s), its value in hundredths of
\* arc-seconds
dms_to_dd(coord) ==
  IF IndexError(coord, 0) THEN [raised |-> TRUE, value |-> 0]
  ELSE LET sign == HemisphereSign(coord)
           padded == RJust(SliceFrom(coord, 1), 9, "0")
           d == PyInt(Slice(padded, 0, 3))
           m == PyInt(Slice(padded, 3, 5))
           s100 == PyInt(Slice(padded, 5, 9))
       IN  IF d.raised \/ m.raised \/ s100.raised
           THEN [raised |-> TRUE, value |-> 0]
           ELSE [raised |-> FALSE,
                 value |-> sign * (d.value * HundredthsPerDegree
                                   + m.value * HundredthsPerMinute + s100.value)]

(***************************************************************************)
(* load_cifp.py: parse_cifp                                                *)
(***************************************************************************)
\* lines 108-115 with the two tests made without leaving the loop: each flag
\* is set when some field of the record passes its test
ClassifyNoBreak(fields) ==
  [is_apt |-> \E i \in 1..Len(fields) :
                fields[i].name = "Section Code" /\ fields[i].value = "PA",
   is_faf |-> \E i \in 1..Len(fields) :
                fields[i].name = "Waypoint Description Code" /\ fields[i].value = "E  F"]

\* lines 105-115: the scan of a record's fields stops at the first field that
\* passes either test, and sets that test's flag only
RECURSIVE Classify(_)
Classify(fields) ==
  IF fields = << >> THEN [is_apt |-> FALSE, is_faf |-> FALSE]
  ELSE IF Head(fields).name = "Section Code" /\ Head(fields).value = "PA"
       THEN [is_apt |-> TRUE, is_faf |-> FALSE]
  ELSE IF Head(fields).name = "Waypoint Description Code" /\ Head(fields).value = "E  F"
       THEN [is_apt |-> FALSE, is_faf |-> TRUE]
  ELSE Classify(Tail(fields))

\* json.loads(record.json()): the mapping from field name to field value, a
\* repeated name keeping its last value
RecordJson(fields) ==
  [n \in {fields[i].name : i \in 1..Len(fields)} |->
     LET last == CHOOSE i \in 1..Len(fields) :
                   /\ fields[i].name = n
                   /\ \A j \in 1..Len(fields) : fields[j].name = n => j <= i
     IN  fields[last].value]

\* str.strip() on strings whose only whitespace is the space character
RECURSIVE Strip(_)
Strip(s) ==
  IF s = "" THEN ""
  ELSE IF CharAt(s, 0) = " " THEN Strip(SliceFrom(s, 1))
  ELSE IF SliceLast(s, 1) = " " THEN Strip(DropLast(s))
  ELSE s

\* lines 124, 129: every value of a row stripped
StripRow(row) == [n \in DOMAIN row |-> Strip(row[n])]

LatitudeColumn == "Airport Reference Pt. Latitude"
LongitudeColumn == "Airport Reference Pt. Longitude"

\* lines 125-126 raise: the airport table has no coordinate column (no airport
\* record at all), a row has no value in it, or dms_to_dd raises on a value
CoordinatesRaise(rows) ==
  \/ rows = << >>
  \/ \E i \in 1..Len(rows) :
       \/ LatitudeColumn \notin DOMAIN rows[i]
       \/ LongitudeColumn \notin DOMAIN rows[i]
       \/ dms_to_dd(rows[i][LatitudeColumn]).raised
       \/ dms_to_dd(rows[i][LongitudeColumn]).raised

\* lines 125-126: the row with its Latitude and Longitude columns
WithCoordinates(row) ==
  [n \in DOMAIN row \cup {"Latitude", "Longitude"} |->
     IF n = "Latitude" THEN dms_to_dd(row[LatitudeColumn]).value
     ELSE IF n = "Longitude" THEN dms_to_dd(row[LongitudeColumn]).value
     ELSE row[n]]

\* lines 118, 121 with a row left out when the list already holds an equal one
AppendRowUnique(rows, row) ==
  IF \E i \in 1..Len(rows) : rows[i] = row THEN rows ELSE Append(rows, row)

\* lines 118, 121: list.append
AppendRow(rows, row) == Append(rows, row)

\* lines 104-121: one iteration of the extraction loop
ExtractRecord ==
  /\ pcCifp = "extract"
  /\ rec_idx < Len(records)
  /\ LET record == records[rec_idx + 1]
         flags == Classify(record)
     IN  /\ apts' = IF flags.is_apt THEN AppendRow(apts, RecordJson(record)) ELSE apts
         /\ fafs' = IF flags.is_faf THEN AppendRow(fafs, RecordJson(record)) ELSE fafs
  /\ rec_idx' = rec_idx + 1
  /\ UNCHANGED <<records, df_apt, df_faf, pcCifp>>

\* lines 123-131: the two tables are built and returned, or a coordinate raises
BuildTables ==
  /\ pcCifp = "extract"
  /\ rec_idx = Len(records)
  /\ LET stripped == [i \in 1..Len(apts) |-> StripRow(apts[i])]
     IN  IF CoordinatesRaise(stripped)
         THEN /\ pcCifp' = "raised"
              /\ UNCHANGED <<df_apt, df_faf>>
         ELSE /\ df_apt' = [i \in 1..Len(apts) |-> WithCoordinates(stripped[i])]
              /\ df_faf' = [i \in 1..Len(fafs) |-> StripRow(fafs[i])]
              /\ pcCifp' = "done"
  /\ UNCHANGED <<records, rec_idx, apts, fafs>>

(***************************************************************************)
(* load_cifp.py: __main__, the table handed on to merge_charts             *)
(***************************************************************************)
\* lines 140-145: the column name with its special characters removed and its
\* spaces replaced by '_', for the two columns merge_charts reads
AirportColumn == "Airport Identifier"
ApproachColumn == "SID/STAR/Approach Identifier"

\* line 152: a value that is missing or empty is NaN in the handed-on table;
\* it is carried as the empty string, on which approach_id_to_names also raises
\* and which equals no catalog location
ValueOrNaN(row, column) == IF column \in DOMAIN row THEN row[column] ELSE ""

\* lines 137-154: df_faf as parse_cifp returned it, with its columns renamed to
\* Airport_Identifier and SIDSTARApproach_Identifier, row order untouched,
\* becomes the df_faf argument of merge_charts
HandOverFaf ==
  /\ pcCifp = "done"
  /\ pcMerge = "wait"
  /\ in_faf' = [i \in 1..Len(df_faf) |->
                  [Airport_Identifier |-> ValueOrNaN(df_faf[i], AirportColumn),
                   SIDSTARApproach_Identifier |-> ValueOrNaN(df_faf[i], ApproachColumn)]]
  /\ pcMerge' = "rows"
  /\ UNCHANGED <<in_charts, out_faf>>

(***************************************************************************)
(* charts.py: merge_charts                                                 *)
(***************************************************************************)
\* lines 159-162 without the test on the location column
ChartsMatchingAnyAirport(charts, airport, approach_name) ==
  SelectSeq(charts, LAMBDA c : c.chart_name = approach_name)

\* lines 159-162: the rows of the catalog at the airport with the title
ChartsMatching(charts, airport, approach_name) ==
  SelectSeq(charts, LAMBDA c : c.location = airport /\ c.chart_name = approach_name)

\* lines 158-165 with the catalog scanned first: the rows at the airport whose
\* title is any of the candidates, in catalog order
FindChartCatalogOrder(charts, airport, names) ==
  SelectSeq(charts, LAMBDA c : /\ c.location = airport
                               /\ \E i \in 1..Len(names) : c.chart_name = names[i])

\* lines 156-165: the value of `chart` after the loop over the candidates, the
\* empty frame and None both being << >>
RECURSIVE FindChart(_, _, _)
FindChart(charts, airport, names) ==
  IF names = << >> THEN << >>
  ELSE LET chart == ChartsMatching(charts, airport, Head(names))
       IN  IF chart # << >> THEN chart ELSE FindChart(charts, airport, Tail(names))

\* lines 167-173 with the file taken from the last matching row, values[-1]
MergedRowLastMatch(faf, charts, names) ==
  LET chart == FindChart(charts, faf.Airport_Identifier, names)
  IN  IF chart # << >>
      THEN [Airport_Identifier |-> faf.Airport_Identifier,
            SIDSTARApproach_Identifier |-> faf.SIDSTARApproach_Identifier,
            Approach_Name |-> << chart[1].chart_name >>,
            PDF_Name |-> << chart[Len(chart)].pdf_name >>]
      ELSE [Airport_Identifier |-> faf.Airport_Identifier,
            SIDSTARApproach_Identifier |-> faf.SIDSTARApproach_Identifier,
            Approach_Name |-> << >>,
            PDF_Name |-> << >>]

\* lines 167-173: the chart columns of a row; a null is << >>, a value is a
\* one-element sequence
MergedRow(faf, charts, names) ==
  LET chart == FindChart(charts, faf.Airport_Identifier, names)
  IN  IF chart # << >>
      THEN [Airport_Identifier |-> faf.Airport_Identifier,
            SIDSTARApproach_Identifier |-> faf.SIDSTARApproach_Identifier,
            Approach_Name |-> << chart[1].chart_name >>,
            PDF_Name |-> << chart[1].pdf_name >>]
      ELSE [Airport_Identifier |-> faf.Airport_Identifier,
            SIDSTARApproach_Identifier |-> faf.SIDSTARApproach_Identifier,
            Approach_Name |-> << >>,
            PDF_Name |-> << >>]

\* lines 151-173: one iteration of the loop over the approach rows; an
\* exception of approach_id_to_names leaves merge_charts
MergeRow ==
  /\ pcMerge = "rows"
  /\ Len(out_faf) < Len(in_faf)
  /\ LET faf == in_faf[Len(out_faf) + 1]
         decoded == approach_id_to_names(faf.SIDSTARApproach_Identifier)
     IN  IF decoded.raised
         THEN /\ pcMerge' = "raised"
              /\ UNCHANGED out_faf
         ELSE /\ out_faf' = Append(out_faf, MergedRow(faf, in_charts, decoded.names))
              /\ UNCHANGED pcMerge
  /\ UNCHANGED <<in_faf, in_charts>>

\* lines 180-184: the loop is exhausted and the copy is returned
ReturnMerged ==
  /\ pcMerge = "rows"
  /\ Len(out_faf) = Len(in_faf)
  /\ pcMerge' = "done"
  /\ UNCHANGED <<in_faf, in_charts, out_faf>>

(***************************************************************************)
(* Decoder runs: one call of approach_id_to_names on one identifier        *)
(***************************************************************************)
\* identifiers of the runway-suffixed shape: type letter, runway, suffix
DecodeRunways == {"18L", "09R", "27C", "18-", "36", "9"}
DecodeSuffixes == {"", "Y", "Z"}
DecodeRunwayIds ==
  {t \o r \o s : t \in RunwayTypeLetters \cup {"Z", "A"}, r \in DecodeRunways, s \in DecodeSuffixes}

\* identifiers of the non-runway shape: type code, trailing characters
DecodeTails == {"", "A", "-A", "-B", "--C"}
DecodeNonRunwayIds ==
  {c \o s : c \in TypeCodes \cup {"XYZ", "RN", "ILS"}, s \in DecodeTails}

\* identifiers too short to have a shape
DecodeShortIds == {"", "R", "Z", "9", "-"}

DecodeIds == DecodeRunwayIds \cup DecodeNonRunwayIds \cup DecodeShortIds

NoResult == [raised |-> FALSE, names |-> << >>]

Decode ==
  /\ pcDecode = "call"
  /\ possible_names' = approach_id_to_names(approach_id)
  /\ pcDecode' = "done"
  /\ UNCHANGED approach_id

(***************************************************************************)
(* Coordinate runs: one call of dms_to_dd on one coordinate string         *)
(***************************************************************************)
DmsHemispheres == {"N", "S", "E", "W", "X"}
DmsDegrees == {"37", "00", "89", "122", "005"}
DmsMinutes == {"52", "44", "00"}
DmsSeconds == {"1340", "1300", "0000", "13.40", "13.00"}
DmsInputs ==
  {h \o d \o m \o s : h \in DmsHemispheres, d \in DmsDegrees, m \in DmsMinutes, s \in DmsSeconds}
    \cup {"", "N", "W"}

NoValue == [raised |-> FALSE, value |-> 0]

Dms ==
  /\ pcDms = "call"
  /\ dd' = dms_to_dd(dms)
  /\ pcDms' = "done"
  /\ UNCHANGED dms

(***************************************************************************)
(* Catalog runs: one call of get_charts on one metafile                    *)
(***************************************************************************)
MaxPieces == 4
MaxAirports == 2
MaxRecords == 2

\* sequences over S of length at most n
RECURSIVE SeqsUpTo(_, _)
SeqsUpTo(S, n) ==
  IF n = 0 THEN {<< >>}
  ELSE LET shorter == SeqsUpTo(S, n - 1)
       IN  shorter \cup {Append(q, x) : q \in shorter, x \in S}

TitlePieces == {"ILS", " (CAT", " (SA", " (", "SA", "CAT"}

RECURSIVE TitlesOf(_)
TitlesOf(n) ==
  IF n = 0 THEN {""}
  ELSE LET shorter == TitlesOf(n - 1)
       IN  shorter \cup {t \o piece : t \in shorter, piece \in TitlePieces}

\* raw titles: a chart_name element with text is never the empty string
RawTitles ==
  (TitlesOf(MaxPieces) \ {""})
    \cup {"ILS RWY 27 (CAT II)", "ILS RWY 27 (SA CAT I)", "ILS RWY 27 (SA CAT I) (CAT II)",
          "ILS RWY 27", "VOR-A"}

\* metafiles of one airport with one record, over every raw title
TitleMetafiles ==
  {<< [icao_ident |-> "KAAA", apt_ident |-> "AAA",
       records |-> << [chart_name |-> t, pdf_name |-> "00001IL27.PDF"] >>] >> : t \in RawTitles}

CatalogRecords ==
  {[chart_name |-> "ILS RWY 27 (CAT II)", pdf_name |-> "00001IL27.PDF"],
   [chart_name |-> "VOR-A", pdf_name |-> "00002VA.PDF"]}

CatalogAirports ==
  {[icao_ident |-> i[1], apt_ident |-> i[2], records |-> r] :
     i \in {<<"KAAA", "AAA">>, <<"", "BBB">>}, r \in SeqsUpTo(CatalogRecords, MaxRecords)}

\* metafiles of several airports with several records each
CatalogMetafiles == SeqsUpTo(CatalogAirports, MaxAirports)

(***************************************************************************)
(* Extraction runs: one call of parse_cifp on one file                     *)
(***************************************************************************)
MaxLines == 3

Field(n, v) == [name |-> n, value |-> v]

AirportRecord(ident, airport_name, lat) ==
  << Field("Record Type", "S"), Field("Section Code", "PA"),
     Field("Airport ICAO Identifier", ident), Field("Airport Name", airport_name),
     Field(LatitudeColumn, lat), Field(LongitudeColumn, "W122441300") >>

ApproachRecord(ident, approach, description) ==
  << Field("Record Type", "S"), Field("Section Code", "PF"),
     Field("Airport Identifier", ident), Field("SID/STAR/Approach Identifier", approach),
     Field("Waypoint Description Code", description) >>

\* the records a file is made of: airport records (two of them for KAAA),
\* approach legs that are and are not final approach fixes, a record that has
\* neither field, and records that pass both tests, in either field order
CifpRecords ==
  { AirportRecord("KAAA", "ALPHA FIELD   ", "N37521340"),
    AirportRecord("KAAA", "ALPHA MUNI    ", "N37521400"),
    AirportRecord("KBBB", "BRAVO REGIONAL", "S05000000"),
    ApproachRecord("KAAA", "I09L  ", "E  F"),
    ApproachRecord("KAAA", "R27   ", "E  F"),
    ApproachRecord("KAAA", "I09L  ", "E   "),
    << Field("Record Type", "S"), Field("Customer / Area Code", "USA") >>,
    << Field("Section Code", "PA"), Field("Airport ICAO Identifier", "KCCC"),
       Field(LatitudeColumn, "N37521340"), Field(LongitudeColumn, "W122441300"),
       Field("Waypoint Description Code", "E  F") >>,
    << Field("Waypoint Description Code", "E  F"), Field("Section Code", "PA"),
       Field("Airport ICAO Identifier", "KCCC"),
       Field(LatitudeColumn, "N37521340"), Field(LongitudeColumn, "W122441300") >> }

(***************************************************************************)
(* Merge runs: one call of merge_charts on one approach table and catalog  *)
(***************************************************************************)
MaxRows == 2
MaxCharts == 3

ApproachRow(airport, id) == [Airport_Identifier |-> airport, SIDSTARApproach_Identifier |-> id]

\* approach rows: known and unknown types, a one-character identifier
MergeRows ==
  { ApproachRow("KAAA", "I09L"), ApproachRow("KBBB", "I09L"),
    ApproachRow("KAAA", "Z99"), ApproachRow("KAAA", "R") }

ChartEntry(airport, title, pdf) == [location |-> airport, chart_name |-> title, pdf_name |-> pdf]

\* catalog rows: two titles that are both candidates of I09L (ranked first and
\* second), one of them twice with different files, the same title in another
\* case, and another airport
MergeCharts ==
  { ChartEntry("KAAA", "ILS RWY 09L", "2401/00001IL9L.PDF"),
    ChartEntry("KAAA", "ILS RWY 09L", "2401/00001IL9L_C.PDF"),
    ChartEntry("KAAA", "ILS OR LOC RWY 09L", "2401/00001ILD9L.PDF"),
    ChartEntry("KAAA", "ils rwy 09l", "2401/00001LC.PDF"),
    ChartEntry("KBBB", "ILS OR LOC RWY 09L", "2401/00002ILD9L.PDF") }

(***************************************************************************)
(* Pipeline runs: parse_cifp on one file, then merge_charts on its table   *)
(***************************************************************************)
PipelineCatalogs ==
  { << >>,
    << ChartEntry("KAAA", "ILS RWY 09L", "2401/00001IL9L.PDF") >>,
    << ChartEntry("KAAA", "RNAV (GPS) RWY 27", "2401/00001R27.PDF"),
       ChartEntry("KAAA", "ILS OR LOC RWY 09L", "2401/00001ILD9L.PDF"),
       ChartEntry("KAAA", "ILS RWY 09L", "2401/00001IL9L.PDF") >> }

(***************************************************************************)
(* Specifications                                                          *)
(***************************************************************************)
varsDecode == <<approach_id, possible_names, pcDecode>>
varsDms == <<dms, dd, pcDms>>
varsCharts == <<metafile, cycle, airport_idx, record_idx, location, df_charts, pcCharts>>
varsCifp == <<records, rec_idx, apts, fafs, df_apt, df_faf, pcCifp>>
varsMerge == <<in_faf, in_charts, out_faf, pcMerge>>

varsMetar == <<responses, metar_data, pcMetar>>
varsMain == <<metar, taf, nbh, nbs, df_nbh, df_nbs, attempts, slept, written, uploaded, upload_idx, pcMain>>

vars == <<varsDecode, varsDms, varsCharts, varsCifp, varsMerge, varsMetar, varsMain>>

\* one call of approach_id_to_names; the other runs stay idle
InitDecode ==
  /\ approach_id \in DecodeIds
  /\ possible_names = NoResult
  /\ pcDecode = "call"
  /\ dms = "" /\ dd = NoValue /\ pcDms = "idle"
  /\ metafile = << >> /\ cycle = "" /\ airport_idx = 0 /\ record_idx = 0
  /\ location = "" /\ df_charts = << >> /\ pcCharts = "idle"
  /\ records = << >> /\ rec_idx = 0 /\ apts = << >> /\ fafs = << >>
  /\ df_apt = << >> /\ df_faf = << >> /\ pcCifp = "idle"
  /\ in_faf = << >> /\ in_charts = << >> /\ out_faf = << >> /\ pcMerge = "idle"
  /\ responses = << >> /\ metar_data = << >> /\ pcMetar = "idle"
  /\ metar = "None" /\ taf = "None" /\ nbh = "None" /\ nbs = "None"
  /\ df_nbh = "None" /\ df_nbs = "None" /\ attempts = << >> /\ slept = 0
  /\ written = {} /\ uploaded = << >> /\ upload_idx = 0 /\ pcMain = "idle"

NextDecode == Decode /\ UNCHANGED <<varsDms, varsCharts, varsCifp, varsMerge, varsMetar, varsMain>>

SpecDecode == InitDecode /\ [][NextDecode]_vars

\* one call of dms_to_dd; the other runs stay idle
InitDms ==
  /\ dms \in DmsInputs
  /\ dd = NoValue
  /\ pcDms = "call"
  /\ approach_id = "" /\ possible_names = NoResult /\ pcDecode = "idle"
  /\ metafile = << >> /\ cycle = "" /\ airport_idx = 0 /\ record_idx = 0
  /\ location = "" /\ df_charts = << >> /\ pcCharts = "idle"
  /\ records = << >> /\ rec_idx = 0 /\ apts = << >> /\ fafs = << >>
  /\ df_apt = << >> /\ df_faf = << >> /\ pcCifp = "idle"
  /\ in_faf = << >> /\ in_charts = << >> /\ out_faf = << >> /\ pcMerge = "idle"
  /\ responses = << >> /\ metar_data = << >> /\ pcMetar = "idle"
  /\ metar = "None" /\ taf = "None" /\ nbh = "None" /\ nbs = "None"
  /\ df_nbh = "None" /\ df_nbs = "None" /\ attempts = << >> /\ slept = 0
  /\ written = {} /\ uploaded = << >> /\ upload_idx = 0 /\ pcMain = "idle"

NextDms == Dms /\ UNCHANGED <<varsDecode, varsCharts, varsCifp, varsMerge, varsMetar, varsMain>>

SpecDms == InitDms /\ [][NextDms]_vars

\* one call of get_charts; the other runs stay idle
InitCharts ==
  /\ metafile \in TitleMetafiles \cup CatalogMetafiles
  /\ cycle = "2401"
  /\ airport_idx = 0
  /\ record_idx = 0
  /\ location = ""
  /\ df_charts = << >>
  /\ pcCharts = "airports"
  /\ approach_id = "" /\ possible_names = NoResult /\ pcDecode = "idle"
  /\ dms = "" /\ dd = NoValue /\ pcDms = "idle"
  /\ records = << >> /\ rec_idx = 0 /\ apts = << >> /\ fafs = << >>
  /\ df_apt = << >> /\ df_faf = << >> /\ pcCifp = "idle"
  /\ in_faf = << >> /\ in_charts = << >> /\ out_faf = << >> /\ pcMerge = "idle"
  /\ responses = << >> /\ metar_data = << >> /\ pcMetar = "idle"
  /\ metar = "None" /\ taf = "None" /\ nbh = "None" /\ nbs = "None"
  /\ df_nbh = "None" /\ df_nbs = "None" /\ attempts = << >> /\ slept = 0
  /\ written = {} /\ uploaded = << >> /\ upload_idx = 0 /\ pcMain = "idle"

NextCharts ==
  \/ EnterAirport /\ UNCHANGED <<varsDecode, varsDms, varsCifp, varsMerge, varsMetar, varsMain>>
  \/ AddRecord /\ UNCHANGED <<varsDecode, varsDms, varsCifp, varsMerge, varsMetar, varsMain>>
  \/ LeaveAirport /\ UNCHANGED <<varsDecode, varsDms, varsCifp, varsMerge, varsMetar, varsMain>>
  \/ ReturnCharts /\ UNCHANGED <<varsDecode, varsDms, varsCifp, varsMerge, varsMetar, varsMain>>

SpecCharts == InitCharts /\ [][NextCharts]_vars

\* one call of parse_cifp; the other runs stay idle
InitCifp ==
  /\ records \in SeqsUpTo(CifpRecords, MaxLines)
  /\ rec_idx = 0
  /\ apts = << >>
  /\ fafs = << >>
  /\ df_apt = << >>
  /\ df_faf = << >>
  /\ pcCifp = "extract"
  /\ approach_id = "" /\ possible_names = NoResult /\ pcDecode = "idle"
  /\ dms = "" /\ dd = NoValue /\ pcDms = "idle"
  /\ metafile = << >> /\ cycle = "" /\ airport_idx = 0 /\ record_idx = 0
  /\ location = "" /\ df_charts = << >> /\ pcCharts = "idle"
  /\ in_faf = << >> /\ in_charts = << >> /\ out_faf = << >> /\ pcMerge = "idle"
  /\ responses = << >> /\ metar_data = << >> /\ pcMetar = "idle"
  /\ metar = "None" /\ taf = "None" /\ nbh = "None" /\ nbs = "None"
  /\ df_nbh = "None" /\ df_nbs = "None" /\ attempts = << >> /\ slept = 0
  /\ written = {} /\ uploaded = << >> /\ upload_idx = 0 /\ pcMain = "idle"

NextCifp ==
  \/ ExtractRecord /\ UNCHANGED <<varsDecode, varsDms, varsCharts, varsMerge, varsMetar, varsMain>>
  \/ BuildTables /\ UNCHANGED <<varsDecode, varsDms, varsCharts, varsMerge, varsMetar, varsMain>>

SpecCifp == InitCifp /\ [][NextCifp]_vars

\* one call of merge_charts; the other runs stay idle
InitMerge ==
  /\ in_faf \in SeqsUpTo(MergeRows, MaxRows)
  /\ in_charts \in SeqsUpTo(MergeCharts, MaxCharts)
  /\ out_faf = << >>
  /\ pcMerge = "rows"
  /\ approach_id = "" /\ possible_names = NoResult /\ pcDecode = "idle"
  /\ dms = "" /\ dd = NoValue /\ pcDms = "idle"
  /\ metafile = << >> /\ cycle = "" /\ airport_idx = 0 /\ record_idx = 0
  /\ location = "" /\ df_charts = << >> /\ pcCharts = "idle"
  /\ records = << >> /\ rec_idx = 0 /\ apts = << >> /\ fafs = << >>
  /\ df_apt = << >> /\ df_faf = << >> /\ pcCifp = "idle"
  /\ responses = << >> /\ metar_data = << >> /\ pcMetar = "idle"
  /\ metar = "None" /\ taf = "None" /\ nbh = "None" /\ nbs = "None"
  /\ df_nbh = "None" /\ df_nbs = "None" /\ attempts = << >> /\ slept = 0
  /\ written = {} /\ uploaded = << >> /\ upload_idx = 0 /\ pcMain = "idle"

NextMerge ==
  \/ MergeRow /\ UNCHANGED <<varsDecode, varsDms, varsCharts, varsCifp, varsMetar, varsMain>>
  \/ ReturnMerged /\ UNCHANGED <<varsDecode, varsDms, varsCharts, varsCifp, varsMetar, varsMain>>

SpecMerge == InitMerge /\ [][NextMerge]_vars

\* parse_cifp, then merge_charts on the table it returned; the other runs stay idle
InitPipeline ==
  /\ records \in SeqsUpTo(CifpRecords, MaxLines)
  /\ rec_idx = 0
  /\ apts = << >>
  /\ fafs = << >>
  /\ df_apt = << >>
  /\ df_faf = << >>
  /\ pcCifp = "extract"
  /\ in_faf = << >>
  /\ in_charts \in PipelineCatalogs
  /\ out_faf = << >>
  /\ pcMerge = "wait"
  /\ approach_id = "" /\ possible_names = NoResult /\ pcDecode = "idle"
  /\ dms = "" /\ dd = NoValue /\ pcDms = "idle"
  /\ metafile = << >> /\ cycle = "" /\ airport_idx = 0 /\ record_idx = 0
  /\ location = "" /\ df_charts = << >> /\ pcCharts = "idle"
  /\ responses = << >> /\ metar_data = << >> /\ pcMetar = "idle"
  /\ metar = "None" /\ taf = "None" /\ nbh = "None" /\ nbs = "None"
  /\ df_nbh = "None" /\ df_nbs = "None" /\ attempts = << >> /\ slept = 0
  /\ written = {} /\ uploaded = << >> /\ upload_idx = 0 /\ pcMain = "idle"

NextPipeline ==
  \/ ExtractRecord /\ UNCHANGED <<varsDecode, varsDms, varsCharts, varsMerge, varsMetar, varsMain>>
  \/ BuildTables /\ UNCHANGED <<varsDecode, varsDms, varsCharts, varsMerge, varsMetar, varsMain>>
  \/ HandOverFaf /\ UNCHANGED <<varsDecode, varsDms, varsCharts, varsCifp, varsMetar, varsMain>>
  \/ MergeRow /\ UNCHANGED <<varsDecode, varsDms, varsCharts, varsCifp, varsMetar, varsMain>>
  \/ ReturnMerged /\ UNCHANGED <<varsDecode, varsDms, varsCharts, varsCifp, varsMetar, varsMain>>

SpecPipeline == InitPipeline /\ [][NextPipeline]_vars

(***************************************************************************)
(* load_weather.py: get_metar_data                                         *)
(***************************************************************************)
\* lines 241-245: the number of entries of bboxes
NumBboxes == 3

\* 'key' in observation
Has(observation, key) == key \in DOMAIN observation

\* lines 254-264: the observations of a response the loop of line 266 goes
\* through: none for a status above 400 or a body that is not a list
AcceptedItems(res) ==
  IF res.status_code > 400 THEN << >>
  ELSE IF ~res.is_list THEN << >>
  ELSE res.items

\* line 270 looking at the last row only
AlreadySeenLastRow(rows, id) == rows # << >> /\ rows[Len(rows)].Location = id

\* line 270: observation['icaoId'] in metar_data.index
AlreadySeen(rows, id) == \E i \in 1..Len(rows) : rows[i].Location = id

\* lines 274-277: a non-empty visib string loses its '+' and goes through int();
\* any other visib is deleted, and deleting an absent key raises KeyError
VisibRaises(observation) ==
  IF Has(observation, "visib")
  THEN observation.visib # "" /\ PyInt(Remove(observation.visib, "+")).raised
  ELSE TRUE

\* lines 283-299: the row of one observation, with the columns Location, Time,
\* CIG, LCB and METAR; a null is the empty sequence
MetarRow(observation) ==
  [Location |-> observation.icaoId,
   Time |-> observation.reportTime,
   CIG |-> IF Has(observation, "ceil") THEN << observation.ceil >> ELSE << >>,
   LCB |-> IF Has(observation, "cldBas1") THEN << PyInt(observation.cldBas1).value >> ELSE << >>,
   METAR |-> observation.rawOb]

\* lines 266-301: the observation loop over one response body, from the rows
\* built so far
RECURSIVE AddObservations(_, _)
AddObservations(rows, items) ==
  IF items = << >> THEN [raised |-> FALSE, rows |-> rows]
  ELSE LET observation == Head(items)
       IN  IF ~Has(observation, "icaoId") THEN AddObservations(rows, Tail(items))
           ELSE IF AlreadySeen(rows, observation.icaoId) THEN AddObservations(rows, Tail(items))
           ELSE IF VisibRaises(observation) THEN [raised |-> TRUE, rows |-> rows]
           ELSE IF Has(observation, "cldBas1") /\ PyInt(observation.cldBas1).raised
                THEN [raised |-> TRUE, rows |-> rows]
           ELSE AddObservations(Append(rows, MetarRow(observation)), Tail(items))

\* a cloud layer of an observation
Layer(cover, base) == [cover |-> cover, base |-> base]

\* observations: the one of the ceiling test (cloud layers, no 'ceil', no
\* 'cldBas1'), the same station again with 'ceil' and 'cldBas1' agreeing with
\* its layers, another station with an empty visib, one without 'icaoId' and one
\* without 'visib'
Observations ==
  { [icaoId |-> "KSFO", reportTime |-> "2025-09-16T18:00", visib |-> "10",
     clouds |-> << Layer("SCT", 200), Layer("BKN", 150), Layer("OVC", 100) >>,
     rawOb |-> "KSFO 161758Z" ],
    [icaoId |-> "KSFO", reportTime |-> "2025-09-16T19:00", visib |-> "10+",
     ceil |-> 150, cldBas1 |-> "150",
     clouds |-> << Layer("BKN", 150) >>,
     rawOb |-> "KSFO 161858Z" ],
    [icaoId |-> "KLAX", reportTime |-> "2025-09-16T18:00", visib |-> "",
     ceil |-> 200, cldBas1 |-> "200",
     clouds |-> << Layer("OVC", 200) >>,
     rawOb |-> "KLAX 161758Z" ],
    [reportTime |-> "2025-09-16T18:00", rawOb |-> "KSFO 161758Z" ],
    [icaoId |-> "KOAK", reportTime |-> "2025-09-16T18:00",
     clouds |-> << >>,
     rawOb |-> "KOAK 161758Z" ] }

MaxObservations == 2

Response(status, is_list, items) == [status_code |-> status, is_list |-> is_list, items |-> items]

\* what requests.get can answer: a server error, a body that is not a list, a
\* status of exactly 400 with a list, and status 200 with every list of at most
\* MaxObservations observations
MetarResponses ==
  { Response(500, FALSE, << >>), Response(200, FALSE, << >>) }
  \cup { Response(400, TRUE, << x >>) : x \in { y \in Observations : Has(y, "ceil") } }
  \cup { Response(200, TRUE, q) : q \in SeqsUpTo(Observations, MaxObservations) }

\* lines 248-301: one iteration of the loop over bboxes, the request and the
\* whole observation loop
RequestRegion ==
  /\ pcMetar = "regions"
  /\ Len(responses) < NumBboxes
  /\ \E res \in MetarResponses :
       LET added == AddObservations(metar_data, AcceptedItems(res))
       IN  /\ responses' = Append(responses, res)
           /\ metar_data' = added.rows
           /\ pcMetar' = IF added.raised THEN "raised" ELSE "regions"

\* lines 303-318: the column types are set and the table is returned; on a
\* table without rows there is no 'Location' column and line 304 raises KeyError
ReturnMetar ==
  /\ pcMetar = "regions"
  /\ Len(responses) = NumBboxes
  /\ pcMetar' = IF metar_data = << >> THEN "raised" ELSE "done"
  /\ UNCHANGED <<responses, metar_data>>

\* one call of get_metar_data; the other runs stay idle
InitMetar ==
  /\ responses = << >>
  /\ metar_data = << >>
  /\ pcMetar = "regions"
  /\ approach_id = "" /\ possible_names = NoResult /\ pcDecode = "idle"
  /\ dms = "" /\ dd = NoValue /\ pcDms = "idle"
  /\ metafile = << >> /\ cycle = "" /\ airport_idx = 0 /\ record_idx = 0
  /\ location = "" /\ df_charts = << >> /\ pcCharts = "idle"
  /\ records = << >> /\ rec_idx = 0 /\ apts = << >> /\ fafs = << >>
  /\ df_apt = << >> /\ df_faf = << >> /\ pcCifp = "idle"
  /\ in_faf = << >> /\ in_charts = << >> /\ out_faf = << >> /\ pcMerge = "idle"
  /\ metar = "None" /\ taf = "None" /\ nbh = "None" /\ nbs = "None"
  /\ df_nbh = "None" /\ df_nbs = "None" /\ attempts = << >> /\ slept = 0
  /\ written = {} /\ uploaded = << >> /\ upload_idx = 0 /\ pcMain = "idle"

NextMetar ==
  \/ RequestRegion /\ UNCHANGED <<varsDecode, varsDms, varsCharts, varsCifp, varsMerge, varsMain>>
  \/ ReturnMetar /\ UNCHANGED <<varsDecode, varsDms, varsCharts, varsCifp, varsMerge, varsMain>>

SpecMetar == InitMetar /\ [][NextMetar]_vars

(***************************************************************************)
(* load_weather.py: __main__                                               *)
(***************************************************************************)
\* line 440
n_tries == 10

\* line 448: the argument of time.sleep
SleepSeconds == 60

\* lines 441-448 without the break: the loop goes on after a successful call
AfterAttemptNoBreak(succeeded, tried) ==
  IF tried = n_tries THEN "nbh" ELSE "noaa"

\* lines 441-448: where the retry loop stands after an attempt, tried being the
\* number of calls made so far: left by the break or when range(n_tries) is
\* used up
AfterAttempt(succeeded, tried) ==
  IF succeeded \/ tried = n_tries THEN "nbh" ELSE "noaa"

\* lines 431-437: get_metar_data and process_taf_data in one try block; an
\* exception of either leaves what was assigned before it
GetMetar ==
  /\ pcMain = "metar"
  /\ \E metar_raises \in BOOLEAN, taf_result \in {"raised", "None", "table"} :
       /\ metar' = IF metar_raises THEN "None" ELSE "table"
       /\ taf' = IF metar_raises \/ taf_result = "raised" THEN "None" ELSE taf_result
  /\ pcMain' = "noaa"
  /\ UNCHANGED <<nbh, nbs, df_nbh, df_nbs, attempts, slept, written, uploaded, upload_idx>>

\* lines 441-448: one iteration of the retry loop
AttemptNoaa ==
  /\ pcMain = "noaa"
  /\ Len(attempts) < n_tries
  /\ \E succeeded \in BOOLEAN :
       /\ attempts' = Append(attempts, IF succeeded THEN "ok" ELSE "failed")
       /\ nbh' = IF succeeded THEN "text" ELSE nbh
       /\ nbs' = IF succeeded THEN "text" ELSE nbs
       /\ slept' = IF succeeded THEN slept ELSE slept + SleepSeconds
       /\ pcMain' = AfterAttempt(succeeded, Len(attempts) + 1)
  /\ UNCHANGED <<metar, taf, df_nbh, df_nbs, written, uploaded, upload_idx>>

\* lines 450-461: the NBH text is split, parsed and written; an exception of
\* parse_noaa_data or to_csv is not caught
ParseNbh ==
  /\ pcMain = "nbh"
  /\ IF nbh = "None"
     THEN /\ pcMain' = "nbs"
          /\ UNCHANGED <<nbh, df_nbh, written>>
     ELSE \E raises \in BOOLEAN :
            /\ nbh' = "forecasts"
            /\ df_nbh' = IF raises THEN "None" ELSE "table"
            /\ written' = IF raises THEN written ELSE written \cup {"wx_nbh.csv"}
            /\ pcMain' = IF raises THEN "aborted" ELSE "nbs"
  /\ UNCHANGED <<metar, taf, nbs, df_nbs, attempts, slept, uploaded, upload_idx>>

\* lines 463-474: the same for the NBS text
ParseNbs ==
  /\ pcMain = "nbs"
  /\ IF nbs = "None"
     THEN /\ pcMain' = "upload"
          /\ UNCHANGED <<nbs, df_nbs, written>>
     ELSE \E raises \in BOOLEAN :
            /\ nbs' = "forecasts"
            /\ df_nbs' = IF raises THEN "None" ELSE "table"
            /\ written' = IF raises THEN written ELSE written \cup {"wx_nbs.csv"}
            /\ pcMain' = IF raises THEN "aborted" ELSE "upload"
  /\ UNCHANGED <<metar, taf, nbh, df_nbh, attempts, slept, uploaded, upload_idx>>

\* lines 479-489: the four upload statements in their order, each with the
\* variable it tests
UploadOrder ==
  << [table |-> "weather.metar", value |-> metar],
     [table |-> "weather.taf", value |-> taf],
     [table |-> "weather.nbh", value |-> df_nbh],
     [table |-> "weather.nbs", value |-> df_nbs] >>

\* lines 479-489: one upload statement; an exception of to_gbq is not caught
Upload ==
  /\ pcMain = "upload"
  /\ upload_idx < Len(UploadOrder)
  /\ LET statement == UploadOrder[upload_idx + 1]
         last == upload_idx + 1 = Len(UploadOrder)
     IN  IF statement.value = "None"
         THEN /\ uploaded' = uploaded
              /\ pcMain' = IF last THEN "done" ELSE "upload"
         ELSE \E raises \in BOOLEAN :
                /\ uploaded' = Append(uploaded, statement.table)
                /\ pcMain' = IF raises THEN "aborted" ELSE IF last THEN "done" ELSE "upload"
  /\ upload_idx' = upload_idx + 1
  /\ UNCHANGED <<metar, taf, nbh, nbs, df_nbh, df_nbs, attempts, slept, written>>

\* lines 425-429: one run of the weather loader; the other runs stay idle
InitMain ==
  /\ metar = "None"
  /\ taf = "None"
  /\ nbh = "None"
  /\ nbs = "None"
  /\ df_nbh = "None"
  /\ df_nbs = "None"
  /\ attempts = << >>
  /\ slept = 0
  /\ written = {}
  /\ uploaded = << >>
  /\ upload_idx = 0
  /\ pcMain = "metar"
  /\ approach_id = "" /\ possible_names = NoResult /\ pcDecode = "idle"
  /\ dms = "" /\ dd = NoValue /\ pcDms = "idle"
  /\ metafile = << >> /\ cycle = "" /\ airport_idx = 0 /\ record_idx = 0
  /\ location = "" /\ df_charts = << >> /\ pcCharts = "idle"
  /\ records = << >> /\ rec_idx = 0 /\ apts = << >> /\ fafs = << >>
  /\ df_apt = << >> /\ df_faf = << >> /\ pcCifp = "idle"
  /\ in_faf = << >> /\ in_charts = << >> /\ out_faf = << >> /\ pcMerge = "idle"
  /\ responses = << >> /\ metar_data = << >> /\ pcMetar = "idle"

NextMain ==
  \/ GetMetar /\ UNCHANGED <<varsDecode, varsDms, varsCharts, varsCifp, varsMerge, varsMetar>>
  \/ AttemptNoaa /\ UNCHANGED <<varsDecode, varsDms, varsCharts, varsCifp, varsMerge, varsMetar>>
  \/ ParseNbh /\ UNCHANGED <<varsDecode, varsDms, varsCharts, varsCifp, varsMerge, varsMetar>>
  \/ ParseNbs /\ UNCHANGED <<varsDecode, varsDms, varsCharts, varsCifp, varsMerge, varsMetar>>
  \/ Upload /\ UNCHANGED <<varsDecode, varsDms, varsCharts, varsCifp, varsMerge, varsMetar>>

SpecMain == InitMain /\ [][NextMain]_vars

(***************************************************************************)
(* Properties of the decoder                                               *)
(***************************************************************************)
HasRunwayShape(id) == Len(id) >= 2 /\ CharAt(id, 1) \in Digits

\* the type an identifier carries is in neither decoder table
UnknownType(id) ==
  IF HasRunwayShape(id)
  THEN Slice(id, 0, 1) \notin RunwayTypeLetters
  ELSE Slice(id, 0, 3) \notin TypeCodes

\* C3: for every identifier of any length whose type letter or type code is in
\* neither table, approach_id_to_names returns the empty list and does not raise.
C3_UnknownTypeGivesEmptyList ==
  (pcDecode = "done" /\ UnknownType(approach_id))
    => (~possible_names.raised /\ possible_names.names = << >>)

\* C4: approach_id_to_names("RNVA") returns exactly ["RNAV (GPS)A"].
C4_DecodeRNVA ==
  (pcDecode = "done" /\ approach_id = "RNVA")
    => possible_names = [raised |-> FALSE, names |-> << "RNAV (GPS)A" >>]

\* C10: for a runway-suffixed identifier of type S, D or V the list is eight
\* VOR-family titles on the plain runway, the first being "VOR[ suffix] RWY
\* {runway}"; exactly when the runway ends in L or R, "VOR[ suffix] RWY {nn}L/R"
\* and "VOR/DME[ suffix] RWY {nn}L/R" follow them as candidates nine and ten.
C10_VorFamilyCandidates ==
  (pcDecode = "done" /\ HasRunwayShape(approach_id)
     /\ Slice(approach_id, 0, 1) \in {"S", "D", "V"})
    => LET names == possible_names.names
           runway == Remove(Slice(approach_id, 1, 4), "-")
           suffix == IF Len(approach_id) > 4 THEN " " \o Slice(approach_id, 4, 5) ELSE ""
           on == " RWY " \o runway
           paired == DropLast(runway) \o "L/R"
           lr == SliceLast(runway, 1) \in {"L", "R"}
       IN  /\ ~possible_names.raised
           /\ Len(names) = (IF lr THEN 10 ELSE 8)
           /\ names[1] = "VOR" \o suffix \o " RWY " \o runway
           /\ SubSeq(names, 1, 8) =
                << "VOR" \o suffix \o on,
                   "VOR/DME" \o suffix \o on,
                   "VOR" \o suffix \o " OR TACAN" \o suffix \o on,
                   "VOR/DME" \o suffix \o " OR TACAN" \o suffix \o on,
                   "VOR/DME OR TACAN" \o suffix \o on,
                   "VOR/DME" \o suffix \o " OR TACAN" \o on,
                   "VOR OR GPS" \o suffix \o on,
                   "VOR/DME OR GPS" \o suffix \o on >>
           /\ lr => /\ names[9] = "VOR" \o suffix \o " RWY " \o paired
                    /\ names[10] = "VOR/DME" \o suffix \o " RWY " \o paired
           /\ (approach_id = "S18L") => names[9] = "VOR RWY 18L/R"

C10_Witness ==
  /\ pcDecode = "done"
  /\ approach_id = "D09RY"
  /\ Len(possible_names.names) = 10
  /\ possible_names.names[10] = "VOR/DME Y RWY 09L/R"

(***************************************************************************)
(* Properties of the coordinate conversion                                 *)
(***************************************************************************)
\* C9: dms_to_dd("N375213.40") returns 37 degrees 52 minutes 13.40 seconds (in
\* hundredths of arc-seconds), dms_to_dd("W1224413.00") returns a negative
\* value, and neither call raises.
C9_DmsExamples ==
  /\ (pcDms = "done" /\ dms = "N375213.40")
       => (~dd.raised
           /\ dd.value = 37 * HundredthsPerDegree + 52 * HundredthsPerMinute + 1340)
  /\ (pcDms = "done" /\ dms = "W1224413.00")
       => (~dd.raised /\ dd.value < 0)

(***************************************************************************)
(* Properties of the catalog builder                                       *)
(***************************************************************************)
\* a record has just been handled: the last row of df_charts was built from it
RecordHandled == pcCharts = "records" /\ record_idx >= 1

HandledRaw == metafile[airport_idx].records[record_idx].chart_name
HandledRow == df_charts[Len(df_charts)]

\* the raw title cut at the smaller of the two marker positions found in it
EarlierCut(raw) ==
  LET cuts == {i \in {Find(raw, " (CAT"), Find(raw, " (SA")} : i # -1}
  IN  IF cuts = {} THEN raw
      ELSE Slice(raw, 0, CHOOSE i \in cuts : \A j \in cuts : i <= j)

\* C5: the title stored by get_charts is the raw title cut at the smaller of
\* the first index of " (CAT" and the first index of " (SA", both taken on the
\* raw title.
C5_SequentialCutIsEarlierCut ==
  RecordHandled => HandledRow.chart_name = EarlierCut(HandledRaw)

C5_Witness ==
  /\ RecordHandled
  /\ Find(HandledRaw, " (SA") # -1
  /\ Find(HandledRaw, " (CAT") # -1
  /\ Find(HandledRaw, " (SA") < Find(HandledRaw, " (CAT")
  /\ HandledRow.chart_name = Slice(HandledRaw, 0, Find(HandledRaw, " (SA"))

HasMarker(t) == Find(t, " (CAT") # -1 \/ Find(t, " (SA") # -1

\* C6: normalizing a stored title again leaves it unchanged; a raw title with
\* neither marker is stored unchanged; "ILS RWY 27 (CAT II)" is stored as
\* "ILS RWY 27"; no stored title contains " (CAT" or " (SA".
C6_NormalizeIdempotent ==
  RecordHandled =>
    /\ NormalizeTitle(HandledRow.chart_name) = HandledRow.chart_name
    /\ ~HasMarker(HandledRaw) => HandledRow.chart_name = HandledRaw
    /\ HandledRaw = "ILS RWY 27 (CAT II)" => HandledRow.chart_name = "ILS RWY 27"
    /\ ~HasMarker(HandledRow.chart_name)

C6_Witness ==
  /\ RecordHandled
  /\ HandledRaw = "ILS RWY 27 (SA CAT I) (CAT II)"
  /\ HandledRow.chart_name = "ILS RWY 27"

(***************************************************************************)
(* Properties of the extraction                                            *)
(***************************************************************************)
\* C7: after parse_cifp the airport table holds at most one row per airport
\* identifier (records with one identifier are grouped, the last one winning).
C7_OneRowPerAirport ==
  pcCifp = "done" =>
    \A i, j \in 1..Len(df_apt) :
      df_apt[i]["Airport ICAO Identifier"] = df_apt[j]["Airport ICAO Identifier"] => i = j

HasField(fields, n, v) == \E i \in 1..Len(fields) : fields[i].name = n /\ fields[i].value = v

\* the records among the first k that have the field n with the value v
CountWith(k, n, v) == Cardinality({i \in 1..k : HasField(records[i], n, v)})

\* C8: a record is placed in the airport list iff its Section Code is PA, and
\* in the final-approach-fix list iff its Waypoint Description Code is 'E  F',
\* each test independently of the other and of the order of the fields.
C8_IndependentClassification ==
  pcCifp \in {"extract", "done", "raised"} =>
    /\ Len(apts) = CountWith(rec_idx, "Section Code", "PA")
    /\ Len(fafs) = CountWith(rec_idx, "Waypoint Description Code", "E  F")

(***************************************************************************)
(* Properties of the merge                                                 *)
(***************************************************************************)
\* the positions in a candidate list whose title the catalog has at the airport
PresentPositions(names, charts, airport) ==
  {i \in 1..Len(names) :
     \E k \in 1..Len(charts) : charts[k].location = airport /\ charts[k].chart_name = names[i]}

\* the orderings of a catalog
Orderings(charts) ==
  {[k \in 1..Len(charts) |-> charts[p[k]]] :
     p \in {q \in [1..Len(charts) -> 1..Len(charts)] :
              \A a, b \in 1..Len(charts) : q[a] = q[b] => a = b}}

\* C1: for every approach row with a candidate present in the catalog at the
\* row's airport (exact equality on airport and title), the attached
\* Approach_Name is the present candidate of lowest position in the candidate
\* list, and it is the same for every ordering of the catalog rows.
C1_LowestRankedCandidateWins ==
  \A r \in 1..Len(out_faf) :
    LET faf == in_faf[r]
        names == approach_id_to_names(faf.SIDSTARApproach_Identifier).names
        present == PresentPositions(names, in_charts, faf.Airport_Identifier)
        lowest == CHOOSE i \in present : \A j \in present : i <= j
    IN  present # {} =>
          /\ out_faf[r].Approach_Name = << names[lowest] >>
          /\ \A reordered \in Orderings(in_charts) :
               MergedRow(faf, reordered, names).Approach_Name = out_faf[r].Approach_Name

C1_Witness ==
  /\ Len(out_faf) >= 1
  /\ in_faf[1] = ApproachRow("KAAA", "I09L")
  /\ Len(in_charts) >= 2
  /\ in_charts[1].location = "KAAA" /\ in_charts[1].chart_name = "ILS OR LOC RWY 09L"
  /\ in_charts[2].location = "KAAA" /\ in_charts[2].chart_name = "ILS RWY 09L"
  /\ out_faf[1].Approach_Name = << "ILS RWY 09L" >>

\* C2: every run of merge_charts completes, over any identifier strings, and
\* its output has exactly one row per input row, with or without a chart.
C2_EveryRowKept ==
  /\ pcMerge # "raised"
  /\ pcMerge = "done" =>
       /\ Len(out_faf) = Len(in_faf)
       /\ Cardinality({r \in 1..Len(out_faf) : out_faf[r].Approach_Name # << >>})
            + Cardinality({r \in 1..Len(out_faf) : out_faf[r].Approach_Name = << >>})
            = Len(in_faf)

\* C11: for a runway-suffixed identifier of type I or L the first candidate is
\* "ILS[ suffix] RWY {runway}", the compound "ILS OR LOC" forms follow, and
\* "LOC" and "LOC/DME" are the last two; the runway is the three characters
\* after the type letter without dashes, and a fifth character is the suffix,
\* written after one space at each template's suffix position.
C11_IlsFamilyCandidates ==
  (pcDecode = "done" /\ HasRunwayShape(approach_id)
     /\ Slice(approach_id, 0, 1) \in {"I", "L"})
    => LET names == possible_names.names
           runway == Remove(Slice(approach_id, 1, 4), "-")
           suffix == IF Len(approach_id) > 4 THEN " " \o Slice(approach_id, 4, 5) ELSE ""
           on == " RWY " \o runway
       IN  /\ ~possible_names.raised
           /\ names = << "ILS" \o suffix \o on,
                         "ILS OR LOC" \o suffix \o on,
                         "ILS" \o suffix \o " OR LOC" \o on,
                         "ILS OR LOC/DME" \o suffix \o on,
                         "ILS OR LOC/NDB" \o suffix \o on,
                         "ILS" \o suffix \o " OR LOC" \o suffix \o on,
                         "ILS" \o suffix \o " OR LOC/DME" \o suffix \o on,
                         "LOC" \o suffix \o on,
                         "LOC/DME" \o suffix \o on >>
           /\ (approach_id = "I09L") => names[1] = "ILS RWY 09L"

C11_Witness ==
  /\ pcDecode = "done"
  /\ approach_id = "L18-Y"
  /\ possible_names.names[1] = "ILS Y RWY 18"
  /\ possible_names.names[9] = "LOC/DME Y RWY 18"

\* the family strings of a non-runway type code, in table order
FamiliesOf(code) ==
  CASE code = "RNV" -> << "RNAV (GPS)" >>
    [] code = "GPS" -> << "GPS" >>
    [] code = "VDM" -> << "VOR/DME", "VOR/DME OR GPS" >>
    [] code = "VOR" -> << "VOR", "VOR OR TACAN", "VOR OR TACAN OR GPS" >>
    [] code = "LBC" -> << "LOC BC", "LOC/DME BC" >>
    [] code = "LDA" -> << "LDA", "LDA/DME" >>
    [] code = "NDB" -> << "NDB" >>
    [] code = "LOC" -> << "LOC", "LOC/DME" >>

\* C19: for an identifier whose second character is not a digit and whose first
\* three characters are a known type code, every candidate is the family string
\* followed by the identifier's trailing two-character suffix, the suffix being
\* taken from the characters after the type code only (for every length >= 3),
\* and the candidates are in table order.
C19_NonRunwaySuffixDisjoint ==
  (pcDecode = "done" /\ Len(approach_id) >= 3 /\ ~HasRunwayShape(approach_id)
     /\ Slice(approach_id, 0, 3) \in TypeCodes)
    => LET names == possible_names.names
           families == FamiliesOf(Slice(approach_id, 0, 3))
           suffix == SliceLast(SliceFrom(approach_id, 3), 2)
       IN  /\ ~possible_names.raised
           /\ Len(names) = Len(families)
           /\ \A i \in 1..Len(families) : names[i] = families[i] \o suffix

\* C18: for a hemisphere letter followed by 8 digits (DDMMSSss) or 9 digits
\* (DDDMMSSss), dms_to_dd returns sign * (degrees * 360000 + minutes * 6000 +
\* hundredths of seconds) in hundredths of arc-seconds, the degrees of the
\* 8-digit form being its first two digits, and sign being +1 exactly for a
\* first character N or E and -1 for every other first character.
C18_DmsValue ==
  LET digits == SliceFrom(dms, 1)
      n == Len(digits)
      degrees == DecimalValue(Slice(digits, 0, n - 6))
      minutes == DecimalValue(Slice(digits, n - 6, n - 4))
      hundredths == DecimalValue(Slice(digits, n - 4, n))
      sign == IF Slice(dms, 0, 1) \in {"N", "E"} THEN 1 ELSE -1
  IN  (pcDms = "done" /\ Len(dms) \in {9, 10} /\ AllDigits(digits))
        => /\ ~dd.raised
           /\ dd.value = sign * (degrees * 360000 + minutes * 6000 + hundredths)

C18_Witness ==
  /\ pcDms = "done"
  /\ dms = "E37521340"
  /\ dd.value = 37 * 360000 + 52 * 6000 + 1340

\* the records of a metafile in document order, each with its airport element
RECURSIVE CatalogRecordsOf(_)
CatalogRecordsOf(airports) ==
  IF airports = << >> THEN << >>
  ELSE [k \in 1..Len(Head(airports).records) |->
          [airport |-> Head(airports), record |-> Head(airports).records[k]]]
       \o CatalogRecordsOf(Tail(airports))

\* C12: get_charts produces exactly one entry per catalog record; an entry's
\* airport identifier is the airport's icao_ident when that is non-empty and its
\* apt_ident otherwise, and its filename is the cycle, '/', and the pdf_name.
C12_OneEntryPerRecord ==
  LET expected == CatalogRecordsOf(metafile)
  IN  /\ Len(df_charts) <= Len(expected)
      /\ pcCharts = "done" => Len(df_charts) = Len(expected)
      /\ \A k \in 1..Len(df_charts) :
           /\ df_charts[k].location =
                (IF expected[k].airport.icao_ident # ""
                 THEN expected[k].airport.icao_ident
                 ELSE expected[k].airport.apt_ident)
           /\ df_charts[k].pdf_name = cycle \o "/" \o expected[k].record.pdf_name

C12_Witness ==
  /\ pcCharts = "done"
  /\ Len(df_charts) = 3
  /\ df_charts[1].location = "KAAA"
  /\ df_charts[2].location = "BBB"
  /\ df_charts[3] = [location |-> "BBB", chart_name |-> "VOR-A", pdf_name |-> "2401/00002VA.PDF"]

\* C13: an output row is unresolved (Approach_Name and PDF_Name both null) iff
\* no candidate decoded from its identifier equals the title of a catalog
\* entry at the same airport; Approach_Name is null exactly when PDF_Name is;
\* a resolved row's title and filename are those of one catalog entry at the
\* row's airport.
C13_UnresolvedIffNoMatch ==
  \A r \in 1..Len(out_faf) :
    LET row == out_faf[r]
        names == approach_id_to_names(in_faf[r].SIDSTARApproach_Identifier).names
        hit == \E i \in 1..Len(names) : \E k \in 1..Len(in_charts) :
                 /\ in_charts[k].location = in_faf[r].Airport_Identifier
                 /\ in_charts[k].chart_name = names[i]
    IN  /\ (row.Approach_Name = << >> /\ row.PDF_Name = << >>) <=> ~hit
        /\ row.Approach_Name = << >> <=> row.PDF_Name = << >>
        /\ row.Approach_Name # << >> =>
             \E k \in 1..Len(in_charts) :
               /\ in_charts[k].location = in_faf[r].Airport_Identifier
               /\ << in_charts[k].chart_name >> = row.Approach_Name
               /\ << in_charts[k].pdf_name >> = row.PDF_Name

C13_Witness ==
  /\ pcMerge = "done"
  /\ Len(out_faf) = 2
  /\ in_faf[1] = ApproachRow("KBBB", "I09L")
  /\ out_faf[1].Approach_Name = << "ILS OR LOC RWY 09L" >>
  /\ out_faf[1].PDF_Name = << "2401/00002ILD9L.PDF" >>
  /\ in_faf[2] = ApproachRow("KAAA", "I09L")
  /\ out_faf[2].Approach_Name = << >>
  /\ Len(in_charts) = 2

(***************************************************************************)
(* Properties of the pipeline                                              *)
(***************************************************************************)
\* the records among the first k that parse_cifp classifies as final approach fix
FafRecordsAmong(k) == SelectSeq(SubSeq(records, 1, k), LAMBDA r : Classify(r).is_faf)

\* C14: the final-approach-fix list is exactly the subsequence of the input
\* records classified as final-approach-fix, in input order and without
\* deduplication, and merge_charts keeps these rows in the same order.
C14_FafOrderAndDuplicatesKept ==
  /\ fafs = [k \in 1..Len(FafRecordsAmong(rec_idx)) |-> RecordJson(FafRecordsAmong(rec_idx)[k])]
  /\ pcCifp = "done" =>
       df_faf = [k \in 1..Len(FafRecordsAmong(Len(records))) |->
                   StripRow(RecordJson(FafRecordsAmong(Len(records))[k]))]
  /\ Len(out_faf) <= Len(df_faf)
  /\ pcMerge = "done" => Len(out_faf) = Len(df_faf)
  /\ \A r \in 1..Len(out_faf) :
       /\ out_faf[r].Airport_Identifier = ValueOrNaN(df_faf[r], AirportColumn)
       /\ out_faf[r].SIDSTARApproach_Identifier = ValueOrNaN(df_faf[r], ApproachColumn)

C14_Witness ==
  /\ pcMerge = "done"
  /\ Len(records) = 3
  /\ Len(df_faf) = 2
  /\ df_faf[1] = df_faf[2]
  /\ df_faf[1][ApproachColumn] = "I09L"
  /\ out_faf[1] = out_faf[2]
  /\ out_faf[1].Approach_Name = << "ILS RWY 09L" >>

(***************************************************************************)
(* Properties of get_metar_data                                            *)
(***************************************************************************)
RECURSIVE Concat(_)
Concat(lists) == IF lists = << >> THEN << >> ELSE Head(lists) \o Concat(Tail(lists))

\* the observations with a station identifier in the responses received so
\* far, in the order the loops go through them
SeenObservations ==
  SelectSeq(Concat([r \in 1..Len(responses) |-> AcceptedItems(responses[r])]),
            LAMBDA o : Has(o, "icaoId"))

\* the first observation seen for a station
FirstSeen(id) ==
  LET k == CHOOSE k \in 1..Len(SeenObservations) :
             /\ SeenObservations[k].icaoId = id
             /\ \A j \in 1..(k - 1) : SeenObservations[j].icaoId # id
  IN  SeenObservations[k]

MetarReturned == pcMetar = "done"
MetarFinished == pcMetar \in {"done", "raised"}

\* C15: whenever no observation is accepted (every region answers with an error
\* status, a body that is not a list, or observations without 'icaoId'),
\* get_metar_data still requests every region and returns a table of zero rows
\* without raising.
C15_EmptyTableWhenNothingAccepted ==
  (MetarFinished /\ SeenObservations = << >>) =>
     /\ Len(responses) = NumBboxes
     /\ MetarReturned
     /\ metar_data = << >>

\* C16: no station identifier is in two rows; each row is the row of the first
\* observation seen for its station across the region requests, and the
\* returned table has a row for every station seen.
C16_FirstObservationPerStation ==
  /\ \A i, j \in 1..Len(metar_data) :
       metar_data[i].Location = metar_data[j].Location => i = j
  /\ \A i \in 1..Len(metar_data) :
       /\ \E k \in 1..Len(SeenObservations) :
            SeenObservations[k].icaoId = metar_data[i].Location
       /\ metar_data[i] = MetarRow(FirstSeen(metar_data[i].Location))
  /\ MetarReturned =>
       { metar_data[i].Location : i \in 1..Len(metar_data) }
         = { SeenObservations[k].icaoId : k \in 1..Len(SeenObservations) }

C16_Witness ==
  /\ MetarReturned
  /\ Len(responses) = NumBboxes
  /\ \A r \in 1..Len(responses) :
       /\ responses[r] = responses[1]
       /\ responses[r].status_code = 200
       /\ Len(AcceptedItems(responses[r])) = 2
  /\ Len(SeenObservations) = 6
  /\ Len(metar_data) = 2
  /\ metar_data[1].Location = "KSFO"
  /\ metar_data[2].Location = "KLAX"

\* the lowest base among the layers whose cover is in covers, null when none
LowestBase(layers, covers) ==
  LET bases == { layers[k].base : k \in { j \in 1..Len(layers) : layers[j].cover \in covers } }
  IN  IF bases = {} THEN << >>
      ELSE << CHOOSE b \in bases : \A c \in bases : b <= c >>

\* C17: every row's CIG is the lowest base among the BKN and OVC cloud layers of
\* its observation, null without such a layer, and its LCB is the lowest base
\* among the SCT, BKN and OVC layers.
C17_CeilingFromCloudLayers ==
  \A i \in 1..Len(metar_data) :
    LET observation == FirstSeen(metar_data[i].Location)
    IN  /\ metar_data[i].CIG = LowestBase(observation.clouds, {"BKN", "OVC"})
        /\ metar_data[i].LCB = LowestBase(observation.clouds, {"SCT", "BKN", "OVC"})

(***************************************************************************)
(* Properties of the weather loader's main sequence                        *)
(***************************************************************************)
FailedAttempts == { k \in 1..Len(attempts) : attempts[k] = "failed" }
AllAttemptsFailed == Len(attempts) = n_tries /\ FailedAttempts = 1..n_tries
PastRetryLoop == pcMain \in {"nbh", "nbs", "upload", "done", "aborted"}
WasUploaded(table) == \E k \in 1..Len(uploaded) : uploaded[k] = table

\* C20: get_noaa_data is called at most n_tries times and never after a call
\* that succeeded; every failed call is followed by a wait of SleepSeconds; the
\* loop is left only after a success or after n_tries failures; after n_tries
\* failures nbh and nbs stay unset, no NBH or NBS table is parsed, written or
\* uploaded and the run reaches the upload statements; a run that ends has
\* called to_gbq for METAR and for TAF exactly when each is set, whatever the
\* NOAA outcome.
C20_NoaaRetryAndIndependentUploads ==
  /\ Len(attempts) <= n_tries
  /\ \A k \in 1..Len(attempts) : attempts[k] = "ok" => k = Len(attempts)
  /\ slept = SleepSeconds * Cardinality(FailedAttempts)
  /\ PastRetryLoop =>
       (AllAttemptsFailed \/ (attempts # << >> /\ attempts[Len(attempts)] = "ok"))
  /\ pcMain \in {"metar", "noaa"} => FailedAttempts = 1..Len(attempts)
  /\ AllAttemptsFailed =>
       /\ nbh = "None" /\ nbs = "None"
       /\ df_nbh = "None" /\ df_nbs = "None"
       /\ written = {}
       /\ ~WasUploaded("weather.nbh") /\ ~WasUploaded("weather.nbs")
       /\ pcMain = "aborted" => uploaded # << >>
       /\ (upload_idx >= 1 /\ metar # "None") => uploaded[1] = "weather.metar"
  /\ pcMain = "done" =>
       /\ WasUploaded("weather.metar") <=> metar # "None"
       /\ WasUploaded("weather.taf") <=> taf # "None"

C20_Witness ==
  /\ pcMain = "done"
  /\ AllAttemptsFailed
  /\ slept = 600
  /\ uploaded = << "weather.metar", "weather.taf" >>

\* the catalog positions of the rows at the airport carrying the title
EntriesWithTitle(charts, airport, title) ==
  {k \in 1..Len(charts) : charts[k].location = airport /\ charts[k].chart_name = title}

\* C21: a row that got a title gets the filename of the first catalog row, in
\* catalog order, that carries this title at the row's airport; when the rows
\* carrying it have different filenames some ordering of the catalog attaches
\* another filename; and rows with the same (airport, identifier) pair get the
\* same title and filename.
C21_FirstEntryFilename ==
  /\ \A r \in 1..Len(out_faf) :
       out_faf[r].Approach_Name # << >> =>
         LET faf == in_faf[r]
             names == approach_id_to_names(faf.SIDSTARApproach_Identifier).names
             entries == EntriesWithTitle(in_charts, faf.Airport_Identifier,
                                         out_faf[r].Approach_Name[1])
             first == CHOOSE k \in entries : \A j \in entries : k <= j
         IN  /\ entries # {}
             /\ out_faf[r].PDF_Name = << in_charts[first].pdf_name >>
             /\ (\E k \in entries : in_charts[k].pdf_name # in_charts[first].pdf_name) =>
                  \E reordered \in Orderings(in_charts) :
                    /\ MergedRow(faf, reordered, names).Approach_Name = out_faf[r].Approach_Name
                    /\ MergedRow(faf, reordered, names).PDF_Name # out_faf[r].PDF_Name
  /\ \A r, q \in 1..Len(out_faf) :
       (/\ in_faf[r].Airport_Identifier = in_faf[q].Airport_Identifier
        /\ in_faf[r].SIDSTARApproach_Identifier = in_faf[q].SIDSTARApproach_Identifier) =>
          /\ out_faf[r].Approach_Name = out_faf[q].Approach_Name
          /\ out_faf[r].PDF_Name = out_faf[q].PDF_Name

C21_Witness ==
  /\ pcMerge = "done"
  /\ in_faf = << ApproachRow("KAAA", "I09L"), ApproachRow("KAAA", "I09L") >>
  /\ in_charts = << ChartEntry("KAAA", "ILS OR LOC RWY 09L", "2401/00001ILD9L.PDF"),
                    ChartEntry("KAAA", "ILS RWY 09L", "2401/00001IL9L_C.PDF"),
                    ChartEntry("KAAA", "ILS RWY 09L", "2401/00001IL9L.PDF") >>
  /\ out_faf[1].PDF_Name = << "2401/00001IL9L_C.PDF" >>
  /\ out_faf[2] = out_faf[1]

====
